---- MODULE Spec2Model ----
(***************************************************************************)
(* Model of setup.py, the STM32 / MicroPython project orchestrator.        *)
(*                                                                         *)
(* Two specifications share the variables below:                           *)
(*   SpecEdit  applies update_cross_compile to bounded file contents;      *)
(*   Spec      runs one invocation of main() on a bounded file system.     *)
(*                                                                         *)
(* Text is a sequence of tokens.  A token is either a line terminator      *)
(* character (LF, CR) or a chunk of ordinary text that contains neither.   *)
(***************************************************************************)
EXTENDS Integers, Sequences, FiniteSets, TLC

VARIABLES
    makefile,       \* SpecEdit: content (as stored on disk) of the edited file, or NoFile
    new_path,       \* SpecEdit: the new_path argument
    orig,           \* SpecEdit: content before the first application
    napplied,       \* SpecEdit: number of applications so far
    first,          \* SpecEdit: content after the first application
    retval,         \* SpecEdit: the values returned by the applications so far
    argv,           \* Spec: the command line after the program name
    command,        \* Spec: args.command
    delete_current, \* Spec: args.delete_current
    pc,             \* Spec: the statement the invocation is at
    fs,             \* Spec: the entries below cwd, path |-> entry
    fs0,            \* Spec: fs when the invocation started
    script,         \* Spec: where __file__ lives
    answer,         \* Spec: what the operator typed at the confirmation prompt
    project_name,   \* Spec: the local of setup_stm32_project, Unbound until assigned
    project_path,   \* Spec: the local of setup_stm32_project
    log,            \* Spec: the steps carried out so far, in order
    failed,         \* Spec: the processes that exited non-zero
    exitCode,       \* Spec: <<status>> once the invocation has exited, <<>> while it runs
    output,         \* Spec: what main printed through argparse
    error           \* Spec: the uncaught exception, None if none

editvars == <<makefile, new_path, orig, napplied, first, retval>>
runvars == <<argv, command, delete_current, pc, fs, fs0, script, answer,
             project_name, project_path, log, failed, exitCode, output, error>>
vars == <<editvars, runvars>>

----------------------------------------------------------------------------
(* Bounds *)
MaxLen == 5         \* longest initial file content, in tokens
MaxApply == 2       \* applications of update_cross_compile per behaviour

----------------------------------------------------------------------------
(* Text *)
LF == "LF"
CR == "CR"
\* the content of a file that does not exist or cannot be opened
NoFile == <<"NoFile">>
\* a sequence-valued variable not assigned yet
Unset == <<"Unset">>
None == "None"

\* "CROSS_COMPILE", the literal of line 38
Key == <<"CROSS_COMPILE">>

\* open(path, "r"): universal newlines, "\r\n" and "\r" are read as "\n"
RECURSIVE TranslateNewlines(_)
TranslateNewlines(s) ==
    IF s = <<>> THEN <<>>
    ELSE IF Head(s) = CR
         THEN IF Len(s) >= 2 /\ s[2] = LF
              THEN <<LF>> \o TranslateNewlines(SubSeq(s, 3, Len(s)))
              ELSE <<LF>> \o TranslateNewlines(Tail(s))
         ELSE <<Head(s)>> \o TranslateNewlines(Tail(s))

\* split after every LF, keeping the terminators; the last line may have none
RECURSIVE SplitLines(_, _)
SplitLines(s, cur) ==
    IF s = <<>> THEN (IF cur = <<>> THEN <<>> ELSE <<cur>>)
    ELSE IF Head(s) = LF
         THEN <<Append(cur, LF)>> \o SplitLines(Tail(s), <<>>)
         ELSE SplitLines(Tail(s), Append(cur, Head(s)))

\* file.readlines() on a file opened in text mode
readlines(content) == SplitLines(TranslateNewlines(content), <<>>)

\* file.writelines(lines): "\n" is written as os.linesep, which is "\n" here
RECURSIVE writelines(_)
writelines(lines) ==
    IF lines = <<>> THEN <<>> ELSE Head(lines) \o writelines(Tail(lines))

startswith_never(line, prefix) == FALSE

\* str.startswith
startswith(line, prefix) ==
    /\ Len(line) >= Len(prefix)
    /\ SubSeq(line, 1, Len(prefix)) = prefix

\* the for loop of lines 37-41: index of the first matching line, 0 if none
FirstMatch(lines) ==
    IF \E i \in 1..Len(lines) : startswith(lines[i], Key)
    THEN CHOOSE i \in 1..Len(lines) :
            /\ startswith(lines[i], Key)
            /\ \A j \in 1..(i - 1) : ~startswith(lines[j], Key)
    ELSE 0

\* f"CROSS_COMPILE = {new_path}\n"
ReplacementLine(p) == <<"CROSS_COMPILE", " = ">> \o p \o <<LF>>

AppendedLine_bare(p) == <<"CROSS_COMPILE", " = ">> \o p \o <<LF>>

\* f"\nCROSS_COMPILE = {new_path}\n"
AppendedLine(p) == <<LF, "CROSS_COMPILE", " = ">> \o p \o <<LF>>

\* update_cross_compile: [ok |-> returned value, content |-> file afterwards]
update_cross_compile(content, p) ==
    IF content = NoFile
    THEN [ok |-> FALSE, content |-> NoFile]
    ELSE LET lines == readlines(content)
             i     == FirstMatch(lines)
             out   == IF i # 0
                      THEN [lines EXCEPT ![i] = ReplacementLine(p)]
                      ELSE Append(lines, AppendedLine(p))
         IN  [ok |-> TRUE, content |-> writelines(out)]

----------------------------------------------------------------------------
(* SpecEdit: update_cross_compile on bounded inputs *)

Alphabet == {"CROSS_COMPILE", "x", LF, CR}

Contents == UNION {[1..n -> Alphabet] : n \in 0..MaxLen}

\* values of new_path: path text, which holds no line terminator
NewPaths == {<<"p">>, <<"q", "x">>}

\* the orchestrator is not running
IdleRun ==
    /\ argv = <<>> /\ command = None /\ delete_current = FALSE
    /\ pc = "idle" /\ fs = <<>> /\ fs0 = <<>> /\ script = <<>>
    /\ answer = None /\ project_name = None /\ project_path = <<>>
    /\ log = <<>> /\ failed = {} /\ exitCode = <<>> /\ output = None
    /\ error = None

InitEdit ==
    /\ IdleRun
    /\ makefile \in Contents \cup {NoFile}
    /\ new_path \in NewPaths
    /\ orig = makefile
    /\ napplied = 0
    /\ first = Unset
    /\ retval = <<>>

ApplyEdit ==
    /\ napplied < MaxApply
    /\ LET r == update_cross_compile(makefile, new_path)
       IN  /\ makefile' = r.content
           /\ retval' = Append(retval, r.ok)
           /\ first' = IF napplied = 0 THEN r.content ELSE first
    /\ napplied' = napplied + 1
    /\ UNCHANGED <<new_path, orig>>
    /\ UNCHANGED runvars

NextEdit == ApplyEdit

SpecEdit == InitEdit /\ [][NextEdit]_vars

----------------------------------------------------------------------------
(* The file system below cwd.  A path is the sequence of its components    *)
(* relative to cwd, <<>> being cwd itself.  fs maps each existing path to  *)
(* [kind, born, data]: born is "old" for an entry that was there when the  *)
(* invocation started and "new" for one created since.                     *)

Dir(b) == [kind |-> "dir", born |-> b, data |-> <<>>]
File(b, d) == [kind |-> "file", born |-> b, data |-> d]

Exists(f, p) == p = <<>> \/ p \in DOMAIN f
IsDir(f, p) == p = <<>> \/ (p \in DOMAIN f /\ f[p].kind = "dir")
IsFile(f, p) == p \in DOMAIN f /\ f[p].kind = "file"

Prefixes(p) == {SubSeq(p, 1, n) : n \in 1..Len(p)}
Parent(p) == SubSeq(p, 1, Len(p) - 1)
Under(p, q) == Len(q) >= Len(p) /\ SubSeq(q, 1, Len(p)) = p

\* Path.mkdir(parents=True, exist_ok=True) raises when p or an ancestor is a file
MkdirRaises(f, p) == \E q \in Prefixes(p) : IsFile(f, q)
Mkdir(f, p) ==
    LET missing == {q \in Prefixes(p) : q \notin DOMAIN f}
    IN  [q \in DOMAIN f \cup missing |-> IF q \in DOMAIN f THEN f[q] ELSE Dir("new")]

\* open(p, "w") / open(p, "a") raise when the parent is no directory or p is one
OpenRaises(f, p) == ~IsDir(f, Parent(p)) \/ IsDir(f, p)
Write(f, p, d) ==
    [q \in DOMAIN f \cup {p} |->
        IF q # p THEN f[q]
        ELSE IF p \in DOMAIN f THEN [f[p] EXCEPT !.data = d] ELSE File("new", d)]

\* shutil.rmtree(p) for a directory, Path.unlink() for a file
Remove(f, p) == [q \in {r \in DOMAIN f : ~Under(p, r)} |-> f[q]]

RECURSIVE RemoveAll(_, _)
RemoveAll(f, ps) ==
    IF ps = {} THEN f
    ELSE LET p == CHOOSE x \in ps : TRUE IN RemoveAll(Remove(f, p), ps \ {p})

\* project_path.iterdir(): the top-level entries
TopLevel(f) == {p \in DOMAIN f : Len(p) = 1}

DeleteEntries_files_only(f) == RemoveAll(f, {p \in TopLevel(f) : f[p].kind = "file"})

\* lines 151-155: remove every entry of the directory
DeleteEntries(f) == RemoveAll(f, TopLevel(f))

\* cwd / name (an empty component adds nothing)
Join(base, name) == IF name = "" THEN base ELSE Append(base, name)

\* str(path) of an absolute path below cwd, as one token per component
RECURSIVE PathStr(_)
PathStr(p) == IF p = <<>> THEN <<"CWD">> ELSE PathStr(Parent(p)) \o <<"/", p[Len(p)]>>

TOOLCHAIN == "gcc-arm-none-eabi-10.3-2021.07"
StmDir(root) == root \o <<"stm32">>
CompilerDir(root) == root \o <<"stm32", "arm_gcc_compiler">>
MpyDir(stm) == stm \o <<"micropython">>
PortDir(stm) == stm \o <<"micropython", "ports", "stm32">>
BoardDir(stm) == PortDir(stm) \o <<"boards", "NUCLEO_H743ZI">>
ManifestPath(stm) == BoardDir(stm) \o <<"manifest.py">>
MakefilePath(stm) == PortDir(stm) \o <<"Makefile">>
ModulesDir(stm) == PortDir(stm) \o <<"modules">>
FirmwareApp(stm) == ModulesDir(stm) \o <<"app">>

\* the Makefile of ports/stm32 as cloned: it holds "CROSS_COMPILE ?= arm-none-eabi-"
ClonedMakefile ==
    <<"x", LF, "CROSS_COMPILE", " ?= arm-none-eabi-", LF, "x", LF>>
ClonedManifest == <<"x", LF>>

\* what a successful "git clone" leaves in directory stm
Cloned(f, stm, b) ==
    LET dirs  == Prefixes(BoardDir(stm)) \ Prefixes(stm)
        files == {MakefilePath(stm), ManifestPath(stm)}
    IN  [q \in DOMAIN f \cup dirs \cup files |->
            IF q \in DOMAIN f THEN f[q]
            ELSE IF q = MakefilePath(stm) THEN File(b, ClonedMakefile)
            ELSE IF q = ManifestPath(stm) THEN File(b, ClonedManifest)
            ELSE Dir(b)]

\* shutil.copytree(src, dst): dst and its ancestors are created, the entries
\* below src are copied
CopyTree(f, src, dst) ==
    LET g      == Mkdir(f, dst)
        copies == {q \in DOMAIN f : Under(src, q) /\ q # src}
        Dest(q) == dst \o SubSeq(q, Len(src) + 1, Len(q))
        added  == {Dest(q) : q \in copies}
    IN  [r \in DOMAIN g \cup added |->
            IF r \in DOMAIN g THEN g[r]
            ELSE LET q == CHOOSE x \in copies : Dest(x) = r
                 IN  [f[q] EXCEPT !.born = "new"]]

----------------------------------------------------------------------------
(* Literals of setup_stm32_project *)

\* the text written to app/app.py (lines 178-186)
AppStub ==
    <<LF, "import pyb", LF, LF, "def run():", LF,
      "    print(\"run function is runing\")", LF, "    pyb.LED(1).on()", LF>>

\* tasks_content (lines 206-231): a dict is the sequence of its <<key, value>>
\* pairs in insertion order, a string the sequence of its words.  tasks.json
\* holds the JSON text of this value; the model keeps the value it denotes.
Task(label, token) ==
    << <<"label", <<label>>>>, <<"type", <<"shell">>>>,
       <<"command", <<"python3", "stm32/setup.py", token>>>> >>

TaskDependingOn(label, token, dep) == Append(Task(label, token), <<"dependsOn", <<dep>>>>)

tasks_content_flash_first ==
    << <<"version", <<"2.0.0">>>>,
       <<"tasks", << Task("Setup", "setup"),
                     TaskDependingOn("Compile", "compile", "Flash"),
                     Task("Flash", "flash"),
                     Task("Reset", "reset") >> >> >>

tasks_content ==
    << <<"version", <<"2.0.0">>>>,
       <<"tasks", << Task("Setup", "setup"),
                     Task("Compile", "compile"),
                     TaskDependingOn("Flash", "flash", "Compile"),
                     Task("Reset", "reset") >> >> >>

----------------------------------------------------------------------------
(* main: the command line *)

Commands == {"stlink", "compiler", "compile", "flash", "reset", "get_mpy", "clean", "setup"}

Tokens == Commands \cup {"bogus", "--delete_current", "-h"}

\* command lines of at most two words
Argvs == {<<>>} \cup {<<a>> : a \in Tokens} \cup {<<a, b>> : a, b \in Tokens}

Parsed(c, d) == [kind |-> "args", command |-> c, delete_current |-> d]
HelpExit == [kind |-> "help", command |-> None, delete_current |-> FALSE]
UsageError == [kind |-> "error", command |-> None, delete_current |-> FALSE]

parse_args_lenient(a) ==
    IF a # <<>> /\ a[1] \in Commands
    THEN Parsed(a[1], Len(a) = 2 /\ a[1] = "setup" /\ a[2] = "--delete_current")
    ELSE Parsed(None, FALSE)

\* parser.parse_args() for the parser of lines 242-256:
\*   no word: command is None (the subparsers are not required);
\*   -h first, or -h after a command: the help action prints and exits 0;
\*   a first word that is no subcommand: parser.error, usage and exit 2;
\*   a word the (sub)parser does not know: "unrecognized arguments", exit 2.
parse_args(a) ==
    IF a = <<>> THEN Parsed(None, FALSE)
    ELSE IF a[1] = "-h" THEN HelpExit
    ELSE IF a[1] \notin Commands THEN UsageError
    ELSE IF Len(a) = 1 THEN Parsed(a[1], FALSE)
    ELSE IF a[2] = "-h" THEN HelpExit
    ELSE IF a[1] = "setup" /\ a[2] = "--delete_current" THEN Parsed("setup", TRUE)
    ELSE UsageError

\* the first statement of each command of command_mapping (lines 260-269)
FirstStep(c) ==
    CASE c = "compiler" -> "install_compiler"
      [] c = "get_mpy"  -> "clone"
      [] c = "stlink"   -> "stlink"
      [] c = "compile"  -> "mpy_cross"
      [] c = "flash"    -> "flash"
      [] c = "reset"    -> "reset"
      [] c = "clean"    -> "clean"
      [] c = "setup"    -> "setup_prompt"

----------------------------------------------------------------------------
(* Initial file systems: what earlier invocations or the operator left in cwd *)

Empty == <<>>

Old(f) == [q \in DOMAIN f |-> [f[q] EXCEPT !.born = "old"]]

\* files of the operator that are no part of a project
Junk(f) ==
    Write(Write(Mkdir(f, <<"old_dir">>), <<"old_dir", "note">>, <<"x">>),
          <<"notes.txt">>, <<"x">>)

\* the directory tree and the stub, under root r
Tree(r) ==
    Write(Mkdir(Mkdir(Mkdir(Empty, CompilerDir(r)), r \o <<"app">>), r \o <<".vscode">>),
          r \o <<"app", "app.py">>, AppStub)

WithCompiler(f, r) == Mkdir(f, CompilerDir(r) \o <<TOOLCHAIN>>)

WithMpy(f, r) == Cloned(f, StmDir(r), "old")

\* a project as a completed setup leaves it
Full(r) ==
    Write(Write(Mkdir(WithMpy(WithCompiler(Tree(r), r), r), ModulesDir(StmDir(r))),
                StmDir(r) \o <<"setup.py">>, <<"setup.py">>),
          r \o <<".vscode", "tasks.json">>, tasks_content)

Layouts(r) ==
    {Tree(r), WithCompiler(Tree(r), r), WithMpy(Tree(r), r), Full(r), Junk(Full(r))}

InitialFileSystems ==
    {Old(f) : f \in {Empty, Junk(Empty), Write(Junk(Empty), <<"app">>, <<"x">>)}
                    \cup Layouts(<<>>) \cup Layouts(<<"proj">>)}

\* __file__: the script run from outside cwd, or cwd's own stm32/setup.py
Outside == <<"..", "setup.py">>
ScriptPlaces(f) ==
    {Outside} \cup (IF IsFile(f, <<"stm32", "setup.py">>) THEN {<<"stm32", "setup.py">>} ELSE {})

\* the edit variables are not used by an invocation
IdleEdit ==
    /\ makefile = NoFile /\ new_path = <<>> /\ orig = NoFile
    /\ napplied = 0 /\ first = Unset /\ retval = <<>>

Unbound == "Unbound"

Init ==
    /\ IdleEdit
    /\ argv \in Argvs
    /\ fs \in InitialFileSystems
    /\ fs0 = fs
    /\ script \in ScriptPlaces(fs)
    /\ command = None
    /\ delete_current = FALSE
    /\ pc = "main"
    /\ answer = None
    /\ project_name = Unbound
    /\ project_path = <<>>
    /\ log = <<>>
    /\ failed = {}
    /\ exitCode = <<>>
    /\ output = None
    /\ error = None

----------------------------------------------------------------------------
(* One invocation of main() *)

Frame == UNCHANGED <<editvars, argv, fs0, script>>

\* an uncaught exception ends the invocation with status 1; f is the file
\* system the statement leaves behind
RaiseWith(e, f) ==
    /\ pc' = "CRASHED" /\ error' = e /\ exitCode' = <<1>> /\ fs' = f
    /\ UNCHANGED <<command, delete_current, answer, project_name, project_path,
                   log, failed, output>>
    /\ Frame

Raise(e) == RaiseWith(e, fs)

\* the statement named step is done, control is at next
Goto(next, step, f) ==
    /\ pc' = next /\ log' = Append(log, step) /\ fs' = f
    /\ exitCode' = IF next = "DONE" THEN <<0>> ELSE exitCode
    /\ UNCHANGED <<command, delete_current, answer, project_name, project_path,
                   failed, output, error>>
    /\ Frame

check_true == TRUE

\* the check argument of subprocess.run, which run_command does not pass
check == FALSE

\* run_command(cmd, cwd=dir): subprocess.run raises when dir is no directory;
\* otherwise the process runs and exits 0 (only if it can succeed, leaving
\* effect) or non-zero (leaving the file system as it was); the status is
\* dropped
run_command(name, dir, next, canSucceed, effect) ==
    IF ~IsDir(fs, dir)
    THEN Raise("FileNotFoundError")
    ELSE \E rc \in {0, 1} :
            /\ rc = 0 => canSucceed
            /\ log' = Append(log, name)
            /\ failed' = IF rc = 0 THEN failed ELSE failed \cup {name}
            /\ fs' = IF rc = 0 THEN effect ELSE fs
            /\ IF rc # 0 /\ check
               THEN pc' = "CRASHED" /\ error' = "CalledProcessError" /\ exitCode' = <<1>>
               ELSE /\ pc' = next /\ error' = error
                    /\ exitCode' = IF next = "DONE" THEN <<0>> ELSE exitCode
            /\ UNCHANGED <<command, delete_current, answer, project_name,
                           project_path, output>>
            /\ Frame

\* main (lines 241-274)
Main ==
    /\ pc = "main"
    /\ LET args == parse_args(argv)
       IN  /\ command' = args.command
           /\ delete_current' = args.delete_current
           /\ IF args.kind = "error"
              THEN pc' = "EXIT" /\ output' = "usage_error" /\ exitCode' = <<2>>
              ELSE IF args.kind = "help" \/ args.command \notin Commands
              THEN pc' = "EXIT" /\ output' = "help" /\ exitCode' = <<0>>
              ELSE pc' = FirstStep(args.command) /\ output' = output
                   /\ exitCode' = exitCode
    /\ UNCHANGED <<fs, answer, project_name, project_path, log, failed, error>>
    /\ Frame

Answers == {"y", "Y", "n", "yes", ""}

\* str.lower on the answers
lower(a) == IF a = "Y" THEN "y" ELSE a

confirmed_unless_n(a) == lower(a) # "n"

\* line 150
confirmed(a) == lower(a) = "y"

\* setup_stm32_project, delete_current set (lines 146-159)
SetupConfirm ==
    /\ pc = "setup_prompt" /\ delete_current
    /\ \E a \in Answers :
        /\ answer' = a
        /\ IF confirmed(a)
           THEN /\ fs' = DeleteEntries(fs) /\ pc' = "setup_tree"
                /\ log' = Append(log, "delete") /\ exitCode' = exitCode
           ELSE /\ fs' = fs /\ pc' = "ABORTED"
                /\ log' = log /\ exitCode' = <<0>>
    /\ UNCHANGED <<command, delete_current, project_name, project_path, failed,
                   output, error>>
    /\ Frame

ProjectNames == {"proj", ""}

\* setup_stm32_project, delete_current not set (lines 160-163)
SetupNewProject ==
    /\ pc = "setup_prompt" /\ ~delete_current
    /\ \E n \in ProjectNames :
        /\ project_name' = n
        /\ project_path' = Join(<<>>, n)
        /\ IF MkdirRaises(fs, Join(<<>>, n))
           THEN /\ pc' = "CRASHED" /\ error' = "FileExistsError" /\ exitCode' = <<1>>
                /\ fs' = fs /\ log' = log
           ELSE /\ pc' = "setup_tree" /\ error' = error /\ exitCode' = exitCode
                /\ fs' = Mkdir(fs, Join(<<>>, n)) /\ log' = Append(log, "mkdir_project")
    /\ UNCHANGED <<command, delete_current, answer, failed, output>>
    /\ Frame

\* mkdir of each path in turn, stopping at the first that raises
RECURSIVE MkdirEach(_, _)
MkdirEach(f, ps) ==
    IF ps = <<>> THEN [ok |-> TRUE, fs |-> f]
    ELSE IF MkdirRaises(f, Head(ps)) THEN [ok |-> FALSE, fs |-> f]
    ELSE MkdirEach(Mkdir(f, Head(ps)), Tail(ps))

\* lines 174-176
CreateTree ==
    /\ pc = "setup_tree"
    /\ LET r == MkdirEach(fs, <<StmDir(project_path), CompilerDir(project_path),
                               project_path \o <<"app">>>>)
       IN  IF r.ok THEN Goto("setup_stub", "tree", r.fs)
           ELSE RaiseWith("FileExistsError", r.fs)

\* lines 177-186
WriteStub ==
    /\ pc = "setup_stub"
    /\ LET p == project_path \o <<"app", "app.py">>
       IN  IF OpenRaises(fs, p) THEN Raise("IsADirectoryError")
           ELSE Goto("setup_vscode", "stub", Write(fs, p, AppStub))

\* line 187
MkVscode ==
    /\ pc = "setup_vscode"
    /\ LET p == project_path \o <<".vscode">>
       IN  IF MkdirRaises(fs, p) THEN Raise("FileExistsError")
           ELSE Goto("install_compiler", "mkdir_vscode", Mkdir(fs, p))

\* where control goes when install_compiler / get_micropython return:
\* on to the next statement of setup (lines 193, 194), or out of main
AfterCompiler == IF command = "setup" THEN "clone" ELSE "DONE"
AfterMpy == IF command = "setup" THEN "patch" ELSE "DONE"

\* the path argument of install_compiler (lines 190, 261) and of
\* get_micropython (lines 193, 262); project_path is cwd outside setup
CompilerPath == CompilerDir(project_path)
StmPath == StmDir(project_path)

compiler_exists_archive(f, path) == Exists(f, path \o <<"compiler.tar.bz2">>)

\* compiler.exists() (lines 80-81)
compiler_exists(f, path) == Exists(f, path \o <<TOOLCHAIN>>)

\* install_compiler (lines 78-85)
InstallCompiler ==
    /\ pc = "install_compiler"
    /\ IF compiler_exists(fs, CompilerPath)
       THEN Goto(AfterCompiler, "compiler_exists", fs)
       ELSE /\ pc' = "curl"
            /\ UNCHANGED <<command, delete_current, fs, answer, project_name,
                           project_path, log, failed, exitCode, output, error>>
            /\ Frame

\* download_compiler, the download (lines 60-63)
Curl ==
    /\ pc = "curl"
    /\ run_command("curl", CompilerPath, "tar", TRUE,
                   Write(fs, CompilerPath \o <<"compiler.tar.bz2">>, <<"archive">>))

\* download_compiler, the extraction (line 64)
Tar ==
    /\ pc = "tar"
    /\ run_command("tar", CompilerPath, AfterCompiler,
                   IsFile(fs, CompilerPath \o <<"compiler.tar.bz2">>),
                   Mkdir(fs, CompilerPath \o <<TOOLCHAIN>>))

\* install_stlink (lines 87-89)
Stlink ==
    /\ pc = "stlink"
    /\ run_command("stlink", <<>>, "DONE", TRUE, fs)

\* get_micropython, git clone (lines 94-97): git refuses an existing target
Clone ==
    /\ pc = "clone"
    /\ run_command("clone", StmPath, "checkout",
                   ~Exists(fs, MpyDir(StmPath)), Cloned(fs, StmPath, "new"))

\* get_micropython, git checkout (line 99)
Checkout ==
    /\ pc = "checkout"
    /\ run_command("checkout", MpyDir(StmPath), "submodule", TRUE, fs)

\* get_micropython, git submodule update (line 101)
Submodule ==
    /\ pc = "submodule"
    /\ run_command("submodule", MpyDir(StmPath), "mkdir_modules", TRUE, fs)

\* get_micropython, mkdir modules (line 102): mkdir refuses an existing one
MkdirModules ==
    /\ pc = "mkdir_modules"
    /\ run_command("mkdir_modules", PortDir(StmPath), "manifest",
                   ~Exists(fs, ModulesDir(StmPath)), Mkdir(fs, ModulesDir(StmPath)))

\* get_micropython, the append to manifest.py (lines 103-105)
Manifest ==
    /\ pc = "manifest"
    /\ LET p   == ManifestPath(StmPath)
           old == IF IsFile(fs, p) THEN fs[p].data ELSE <<>>
       IN  IF OpenRaises(fs, p) THEN Raise("FileNotFoundError")
           ELSE Goto(AfterMpy, "manifest",
                     Write(fs, p, Append(old, "freeze(\"$(PORT_DIR)/modules/app\")")))

\* setup_stm32_project, lines 194-199: the arguments are built from
\* project_name, which only the branch of line 161 assigns; the value
\* update_cross_compile returns is dropped
Patch ==
    /\ pc = "patch"
    /\ IF project_name = Unbound THEN Raise("UnboundLocalError")
       ELSE LET root == Join(<<>>, project_name)
                mk   == MakefilePath(StmDir(root))
                r    == update_cross_compile(
                            IF IsFile(fs, mk) THEN fs[mk].data ELSE NoFile,
                            PathStr(CompilerDir(root) \o <<TOOLCHAIN, "bin", "arm-none-eabi-">>))
            IN  Goto("copy_script", "patch", IF r.ok THEN Write(fs, mk, r.content) ELSE fs)

\* setup_stm32_project, line 202: shutil.copy(__file__, setup_script_path)
CopyScript ==
    /\ pc = "copy_script"
    /\ LET dst == StmPath \o <<"setup.py">>
       IN  IF script # Outside /\ ~IsFile(fs, script) THEN Raise("FileNotFoundError")
           ELSE IF script = dst THEN Raise("SameFileError")
           ELSE IF OpenRaises(fs, dst) THEN Raise("FileNotFoundError")
           ELSE Goto("tasks", "copy_script", Write(fs, dst, <<"setup.py">>))

\* setup_stm32_project, lines 206-233
WriteTasks ==
    /\ pc = "tasks"
    /\ LET p == project_path \o <<".vscode", "tasks.json">>
       IN  IF OpenRaises(fs, p) THEN Raise("FileNotFoundError")
           ELSE Goto("stlink", "tasks", Write(fs, p, tasks_content))

\* compile_firmware works on cwd's own stm32 directory
CwdStm == <<"stm32">>

\* compile_firmware, line 111
MpyCross ==
    /\ pc = "mpy_cross"
    /\ run_command("mpy_cross", MpyDir(CwdStm), "submodules", TRUE, fs)

\* compile_firmware, line 112
MakeSubmodules ==
    /\ pc = "submodules"
    /\ run_command("submodules", PortDir(CwdStm), "replace_app", TRUE, fs)

\* compile_firmware, lines 115-119
ReplaceApp ==
    /\ pc = "replace_app"
    /\ LET cleared == IF Exists(fs, FirmwareApp(CwdStm))
                      THEN Remove(fs, FirmwareApp(CwdStm)) ELSE fs
       IN  IF ~IsDir(cleared, <<"app">>) THEN RaiseWith("FileNotFoundError", cleared)
           ELSE Goto("make_board", "replace_app",
                     CopyTree(cleared, <<"app">>, FirmwareApp(CwdStm)))

\* compile_firmware, line 120
MakeBoard ==
    /\ pc = "make_board"
    /\ run_command("make_board", PortDir(CwdStm), "DONE", TRUE, fs)

\* flash_firmware (lines 123-128)
Flash ==
    /\ pc = "flash"
    /\ run_command("flash", PortDir(CwdStm), "DONE", TRUE, fs)

\* reset_device (lines 131-133)
Reset ==
    /\ pc = "reset"
    /\ run_command("reset", <<>>, "DONE", TRUE, fs)

\* clean_build (lines 136-138)
Clean ==
    /\ pc = "clean"
    /\ run_command("clean", PortDir(CwdStm), "DONE", TRUE, fs)

Next ==
    \/ Main
    \/ SetupConfirm
    \/ SetupNewProject
    \/ CreateTree
    \/ WriteStub
    \/ MkVscode
    \/ InstallCompiler
    \/ Curl
    \/ Tar
    \/ Stlink
    \/ Clone
    \/ Checkout
    \/ Submodule
    \/ MkdirModules
    \/ Manifest
    \/ Patch
    \/ CopyScript
    \/ WriteTasks
    \/ MpyCross
    \/ MakeSubmodules
    \/ ReplaceApp
    \/ MakeBoard
    \/ Flash
    \/ Reset
    \/ Clean

Spec == Init /\ [][Next]_vars

----------------------------------------------------------------------------
(* Properties of update_cross_compile, checked under SpecEdit *)

\* the lines of a stored file, byte for byte: split after every LF
RawLines(content) == SplitLines(content, <<>>)

BeginsWithKey(line) == Len(line) >= 1 /\ line[1] = "CROSS_COMPILE"

HasKeyLine(lines) == \E i \in 1..Len(lines) : BeginsWithKey(lines[i])

FirstKeyLine(lines) ==
    CHOOSE i \in 1..Len(lines) :
        /\ BeginsWithKey(lines[i])
        /\ \A j \in 1..(i - 1) : ~BeginsWithKey(lines[j])

HasCR(content) == \E i \in 1..Len(content) : content[i] = CR

Applied == napplied >= 1 /\ orig # NoFile

\* C2: when the file holds a line beginning with CROSS_COMPILE, the file
\* after update_cross_compile is the file before it with the first such line
\* replaced by "CROSS_COMPILE = <new_path>" and every other line byte for
\* byte as it was, in the same order (so the line count is unchanged).
C2_OnlyFirstKeyLineRewritten ==
    (Applied /\ HasKeyLine(RawLines(orig))) =>
        LET lines == RawLines(orig)
            i     == FirstKeyLine(lines)
        IN  /\ first = writelines(
                   [lines EXCEPT ![i] = <<"CROSS_COMPILE", " = ">> \o new_path \o <<LF>>])
            /\ Len(RawLines(first)) = Len(lines)

\* C2 on files that hold no carriage return: there the claim holds
C2_HoldsWithoutCR ==
    (Applied /\ ~HasCR(orig)) => C2_OnlyFirstKeyLineRewritten

\* C3 as stated, on files without carriage returns: when no line begins with
\* CROSS_COMPILE, the file afterwards is the original content followed by
\* exactly the one line "CROSS_COMPILE = <new_path>".
C3_ExactlyOneLineAppended ==
    (Applied /\ ~HasCR(orig) /\ ~HasKeyLine(RawLines(orig))) =>
        first = orig \o <<"CROSS_COMPILE", " = ">> \o new_path \o <<LF>>

\* C3 amended: when no line read from the file begins with CROSS_COMPILE,
\* the file afterwards is the content as read (CR LF and CR read as LF),
\* followed by a line feed, followed by the line "CROSS_COMPILE = <new_path>":
\* a file that is empty or ends with a line terminator gains a blank line
\* and the key line, a file whose last line is unterminated gains one line.
C3_AppendsNewlineThenKeyLine ==
    (Applied /\ ~HasKeyLine(readlines(orig))) =>
        LET read == TranslateNewlines(orig)
            gain == Len(RawLines(first)) - Len(RawLines(read))
        IN  /\ first = read \o <<LF, "CROSS_COMPILE", " = ">> \o new_path \o <<LF>>
            /\ gain = IF read = <<>> \/ read[Len(read)] = LF THEN 2 ELSE 1

\* C3 witness: a file that ends with a line feed and holds no key line was edited
C3_Witness ==
    /\ Applied /\ ~HasKeyLine(readlines(orig))
    /\ Len(orig) >= 2 /\ orig[Len(orig)] = LF
    /\ Len(RawLines(first)) = Len(RawLines(orig)) + 2

\* C10: a second (and any later) application with the same new_path leaves
\* the file as the first application left it.
C10_Idempotent ==
    napplied >= 2 => makefile = first

\* C10 witness: the first application appended the key line, and a second ran
C10_Witness ==
    /\ napplied >= 2 /\ orig # NoFile
    /\ ~HasKeyLine(readlines(orig))
    /\ first # orig
    /\ Len(retval) = napplied

----------------------------------------------------------------------------
(* Properties of an invocation, checked under Spec *)

Terminal == pc \in {"DONE", "ABORTED", "CRASHED", "EXIT"}

InLog(step) == \E i \in 1..Len(log) : log[i] = step

\* the steps that start an external process
Processes ==
    {"curl", "tar", "stlink", "clone", "checkout", "submodule", "mkdir_modules",
     "mpy_cross", "submodules", "make_board", "flash", "reset", "clean"}

IsProcess(step) == step \in Processes

\* the external processes started so far
procs == SelectSeq(log, IsProcess)

\* the phase of setup a step belongs to ("" for the steps C1 does not name)
Phase(step) ==
    CASE step = "tree" -> "tree"
      [] step = "stub" -> "stub"
      [] step \in {"compiler_exists", "curl", "tar"} -> "install_compiler"
      [] step \in {"clone", "checkout", "submodule", "mkdir_modules", "manifest"}
            -> "get_micropython"
      [] step \in {"patch", "copy_script", "tasks", "stlink"} -> step
      [] OTHER -> ""

\* the phases of a log in order, each once per run of consecutive steps
RECURSIVE Phases(_, _)
Phases(l, last) ==
    IF l = <<>> THEN <<>>
    ELSE LET ph == Phase(Head(l))
         IN  IF ph = "" \/ ph = last THEN Phases(Tail(l), last)
             ELSE <<ph>> \o Phases(Tail(l), ph)

PromptPassed ==
    \/ delete_current /\ answer \in {"y", "Y"}
    \/ ~delete_current /\ project_name \notin {Unbound, ""}

\* C1: a setup run in which the prompt is passed and no process fails ends in
\* DONE, having carried out tree, stub, install_compiler, get_micropython,
\* patch, copy_script, tasks and stlink in this order.
C1_SetupReachesDone ==
    (command = "setup" /\ PromptPassed /\ Terminal /\ failed = {}) =>
        /\ pc = "DONE"
        /\ Phases(log, "") = <<"tree", "stub", "install_compiler", "get_micropython",
                               "patch", "copy_script", "tasks", "stlink">>

\* C1 on the path where a project name is entered: there the claim holds
C1_HoldsForNewProject ==
    ~delete_current => C1_SetupReachesDone

\* C4: after any answer but the affirmative to the prompt of
\* setup --delete_current the run is in ABORTED, the file system is as it
\* was when the run started and no process has been started.
C4_DeclineAborts ==
    (command = "setup" /\ delete_current /\ answer \notin {None, "y", "Y"}) =>
        /\ pc = "ABORTED"
        /\ fs = fs0
        /\ procs = <<>>

\* C4 witness: a non-empty directory survived the answer "yes"
C4_Witness ==
    /\ pc = "ABORTED" /\ answer = "yes"
    /\ <<"notes.txt">> \in DOMAIN fs

\* C5: once the operator has confirmed setup --delete_current, no entry that
\* was in cwd before the run is left; right after the deletion, before any
\* provisioning step, cwd is empty; and once the tree is created,
\* stm32/arm_gcc_compiler, app and .vscode are directories of cwd.
C5_ConfirmDeletesThenRecreates ==
    (command = "setup" /\ delete_current /\ answer \in {"y", "Y"}) =>
        /\ \A p \in DOMAIN fs : fs[p].born = "new"
        /\ log = <<"delete">> => DOMAIN fs = {}
        /\ InLog("mkdir_vscode") =>
              /\ IsDir(fs, <<"stm32", "arm_gcc_compiler">>)
              /\ IsDir(fs, <<"app">>)
              /\ IsDir(fs, <<".vscode">>)

\* C5 witness: cwd held a file named app and other entries; after the
\* confirmed deletion the tree is there
C5_Witness ==
    /\ command = "setup" /\ delete_current /\ answer = "Y"
    /\ IsFile(fs0, <<"app">>) /\ IsDir(fs0, <<"old_dir">>)
    /\ InLog("mkdir_vscode")
    /\ IsDir(fs, <<"app">>)

C7_FailureNeverStopsTheAction ==
    (command \in {"get_mpy", "compile", "setup"} /\ failed # {} /\ Terminal) =>
        pc = "DONE"

\* the statement after each run_command, from the source
ProcessSuccessor(step) ==
    CASE step = "curl" -> "tar"
      [] step = "tar" -> IF command = "setup" THEN "clone" ELSE "DONE"
      [] step = "clone" -> "checkout"
      [] step = "checkout" -> "submodule"
      [] step = "submodule" -> "mkdir_modules"
      [] step = "mkdir_modules" -> "manifest"
      [] step = "mpy_cross" -> "submodules"
      [] step = "submodules" -> "replace_app"
      [] step \in {"stlink", "make_board", "flash", "reset", "clean"} -> "DONE"

\* C7 amended: a non-zero exit is never inspected: control passes to the
\* statement after the run_command, as after a zero exit, and no invocation
\* ends on an exit status.  (Whether the later statements then complete is
\* another matter: they raise when what the failed process should have made
\* is missing.)
C7_ExitStatusNeverInspected ==
    /\ [](error # "CalledProcessError")
    /\ [][failed' # failed =>
            /\ pc' = ProcessSuccessor(pc)
            /\ error' = None]_vars

\* C7 witness: the clone failed, the rest of get_micropython ran all the same
C7_Witness ==
    /\ command = "get_mpy" /\ "clone" \in failed
    /\ InLog("checkout") /\ InLog("manifest")
    /\ pc = "DONE"

\* C8: with the toolchain directory present, install_compiler changes
\* nothing and starts neither the download nor the extraction; those two
\* run only while the directory is absent.
C8_InstallCompilerIdempotent ==
    /\ [](pc \in {"curl", "tar"} =>
            ~Exists(fs, CompilerDir(project_path) \o <<"gcc-arm-none-eabi-10.3-2021.07">>))
    /\ [][(/\ pc = "install_compiler"
           /\ Exists(fs, CompilerDir(project_path) \o <<"gcc-arm-none-eabi-10.3-2021.07">>))
          => /\ fs' = fs
             /\ failed' = failed
             /\ log' = Append(log, "compiler_exists")
             /\ pc' = IF command = "setup" THEN "clone" ELSE "DONE"]_vars

\* C8 witness: the compiler command found the toolchain and ended without
\* a process or a change
C8_Witness ==
    /\ command = "compiler" /\ pc = "DONE"
    /\ log = <<"compiler_exists">>
    /\ fs = fs0

Get(dict, key) == dict[CHOOSE i \in 1..Len(dict) : dict[i][1] = key][2]
HasKey(dict, key) == \E i \in 1..Len(dict) : dict[i][1] = key

\* C9: the tasks.json that setup writes holds exactly the four records
\* Setup, Compile, Flash, Reset in this order, each running
\* "python3 stm32/setup.py <token>" with its own token, and only Flash has a
\* dependency, on Compile.
C9_TaskDescriptor ==
    InLog("tasks") =>
        LET doc    == fs[project_path \o <<".vscode", "tasks.json">>].data
            tasks  == Get(doc, "tasks")
            labels == <<"Setup", "Compile", "Flash", "Reset">>
            tokens == <<"setup", "compile", "flash", "reset">>
        IN  /\ Len(tasks) = 4
            /\ \A i \in 1..4 :
                /\ Get(tasks[i], "label") = <<labels[i]>>
                /\ Get(tasks[i], "command") = <<"python3", "stm32/setup.py", tokens[i]>>
                /\ HasKey(tasks[i], "dependsOn") <=> i = 3
            /\ Get(tasks[3], "dependsOn") = <<"Compile">>

\* C9 witness: a setup that wrote the descriptor and completed
C9_Witness ==
    /\ InLog("tasks") /\ pc = "DONE"
    /\ fs[project_path \o <<".vscode", "tasks.json">>].born = "new"

====
